---- MODULE Spec2Model ----
(***************************************************************************)
(* A model of scanner.py: the trend signal (build_signals), the drawdown   *)
(* metric (max_drawdown) and the monthly-contribution backtest             *)
(* (run_backtest).                                                         *)
(*                                                                         *)
(* Numbers.  Python floats are modelled by exact fractions <<n, d>> in     *)
(* lowest terms with d >= 0.  d = 0 is a non-finite float: <<0, 0>> is NaN *)
(* and <<1, 0>>, <<-1, 0>> are the infinities.  Rounding is not modelled.  *)
(*                                                                         *)
(* Dates.  A date is a day number.  The calendar has months of MonthDays   *)
(* days and years of 12 months.                                            *)
(*                                                                         *)
(* Tables.  A price table of 252 rows cannot be enumerated cell by cell,   *)
(* so the tables of the backtest are described by a shape (the index) and  *)
(* their rows are drawn when the loop reads them: the rows before the last *)
(* MaxVaried rows are a quiet stretch (every price 1, one constant signal  *)
(* for the first ticker), the last MaxVaried rows are arbitrary.           *)
(***************************************************************************)
EXTENDS Integers, Sequences, FiniteSets, TLC

VARIABLES
    pc,                   \* position of run_backtest: "call", "loop", "done", "error"
    close,                \* run_backtest argument: the shape of the price table
    signals,              \* run_backtest argument: the quiet stretch's signal row
    monthly_contribution, \* run_backtest argument (a whole number of pounds)
    px,                   \* index of the windowed price table (sequence of dates)
    contribution_days,    \* set of dates: first date of each month in px
    cash,                 \* portfolio state
    shares,               \* portfolio state: ticker -> share count
    equity_points,        \* list of <<date, equity>>
    day,                  \* number of rows of px the loop has processed
    prices,               \* px.loc[day] of the row processed last
    sigrow,               \* sig.loc[day] of the row processed last
    cash0,                \* cash when the row processed last was entered
    shares0,              \* shares when the row processed last was entered
    drawdown,             \* max_drawdown's running maximum and least dd of the curve
    result,               \* the BacktestResult, or the error raised
    series,               \* build_signals argument: one column of close
    sigcol                \* build_signals result for that column

vars == <<pc, close, signals, monthly_contribution, px, contribution_days, cash,
          shares, equity_points, day, prices, sigrow, cash0, shares0, drawdown,
          result,
          series, sigcol>>

btVars == <<pc, close, signals, monthly_contribution, px, contribution_days, cash,
            shares, equity_points, day, prices, sigrow, cash0, shares0, drawdown,
          result>>

sgVars == <<series, sigcol>>

-----------------------------------------------------------------------------
(* Bounds of the model *)

MaxVaried == 2          \* arbitrary rows at the end of the price table
MaxLead == 1            \* rows without a quote at the head of a price column
MaxExtra == 2           \* rows of a price column after the first row that can signal

Tickers == {"A", "B"}

-----------------------------------------------------------------------------
(* Float arithmetic on fractions *)

Abs(n) == IF n < 0 THEN -n ELSE n

Sign(n) == IF n < 0 THEN -1 ELSE IF n = 0 THEN 0 ELSE 1

RECURSIVE GCD(_, _)
GCD(a, b) == IF b = 0 THEN a ELSE GCD(b, a % b)

Norm(n, d) ==
    IF d = 0 THEN <<Sign(n), 0>>
    ELSE LET s == IF d < 0 THEN -1 ELSE 1
             g == GCD(Abs(n), Abs(d))
         IN  <<(s * n) \div g, (s * d) \div g>>

NaN == <<0, 0>>
Zero == <<0, 1>>
One == <<1, 1>>
R(n) == <<n, 1>>

IsNaN(x) == x = NaN

FAdd(a, b) ==
    IF IsNaN(a) \/ IsNaN(b) THEN NaN
    ELSE IF a[2] = 0 /\ b[2] = 0 THEN (IF a = b THEN a ELSE NaN)
    ELSE Norm(a[1] * b[2] + b[1] * a[2], a[2] * b[2])

FSub(a, b) == FAdd(a, <<-b[1], b[2]>>)

FMul(a, b) ==
    IF IsNaN(a) \/ IsNaN(b) THEN NaN
    ELSE Norm(a[1] * b[1], a[2] * b[2])

FDiv(a, b) ==
    IF IsNaN(a) \/ IsNaN(b) THEN NaN
    ELSE Norm(a[1] * b[2], a[2] * b[1])

\* a > b on floats: false when either side is NaN
FGt(a, b) ==
    /\ ~IsNaN(a)
    /\ ~IsNaN(b)
    /\ IF a[2] = 0 /\ b[2] = 0 THEN a[1] > b[1]
       ELSE a[1] * b[2] > b[1] * a[2]

FLe(a, b) == ~IsNaN(a) /\ ~IsNaN(b) /\ ~FGt(a, b)

-----------------------------------------------------------------------------
(* build_signals, on one column of the table: pandas transforms each column *)
(* on its own                                                               *)

DMA_WINDOW == 200
DMA_LAG == 20

RECURSIVE SumRows(_, _, _)
\* col[lo] + ... + col[hi], summed by halves
SumRows(col, lo, hi) ==
    IF lo = hi THEN col[lo]
    ELSE LET mid == (lo + hi) \div 2
         IN  FAdd(SumRows(col, lo, mid), SumRows(col, mid + 1, hi))

\* mutant: rolling(w, min_periods=1), the mean of the rows there are
RollingMean_MinPeriods1(col, w) ==
    [t \in 1..Len(col) |->
        LET lo == IF t > w THEN t - w + 1 ELSE 1
        IN  IF \E k \in lo..t : IsNaN(col[k]) THEN NaN
            ELSE FDiv(SumRows(col, lo, t), R(t - lo + 1))]

\* col.rolling(w).mean(): min_periods is w, so the mean is NaN until w rows
\* are there and whenever one of the w rows is NaN
RollingMean(col, w) ==
    [t \in 1..Len(col) |->
        IF t < w \/ \E k \in (t - w + 1)..t : IsNaN(col[k]) THEN NaN
        ELSE FDiv(SumRows(col, t - w + 1, t), R(w))]

\* col.shift(n)
Shift(col, n) == [t \in 1..Len(col) |-> IF t <= n THEN NaN ELSE col[t - n]]

build_signals(col) ==
    LET dma_200 == RollingMean(col, DMA_WINDOW)
        lagged == Shift(dma_200, DMA_LAG)
        above_200 == [t \in 1..Len(col) |-> FGt(col[t], dma_200[t])]
        dma_rising == [t \in 1..Len(col) |-> FGt(dma_200[t], lagged[t])]
    IN  [t \in 1..Len(col) |-> above_200[t] /\ dma_rising[t]]

\* A price column: `lead` rows without a quote, then price p1 up to row c and
\* price p2 after it, and no quote at row `hole` (0: no such row)
Column(len, lead, c, p1, p2, hole) ==
    [k \in 1..len |->
        IF k <= lead \/ k = hole THEN NaN
        ELSE IF k <= c THEN R(p1) ELSE R(p2)]

FirstSignalRow == DMA_WINDOW + DMA_LAG

Columns ==
    {Column(len, lead, c, p1, p2, hole) :
        len \in {DMA_WINDOW - 1, FirstSignalRow - 1, FirstSignalRow,
                 FirstSignalRow + MaxExtra},
        lead \in 0..MaxLead,
        c \in {0, 1, DMA_LAG, DMA_WINDOW, DMA_WINDOW + 1, FirstSignalRow - 1,
                FirstSignalRow},
        p1 \in {1, 2, 3}, p2 \in {1, 2, 3},
        hole \in {0, DMA_LAG + 1}}

InitSignals ==
    /\ series \in Columns
    /\ sigcol = <<>>

BuildSignals ==
    /\ series # <<>>
    /\ sigcol = <<>>
    /\ sigcol' = build_signals(series)
    /\ UNCHANGED series

-----------------------------------------------------------------------------
(* The calendar and the price table *)

MonthDays == 30                 \* days in a month of the model's calendar
BACKTEST_YEARS == 5
MinRows == 252

Month(d) == d \div MonthDays                       \* index.to_period("M")
YearsBefore(d, y) == d - y * 12 * MonthDays        \* d - pd.DateOffset(years=y)

Epoch == 100 * MonthDays        \* a first day of a month, far from day 0

\* Shapes of the price table: `rows` consecutive daily rows ending at `last`
\* (the first, the second or a middle day of a month), and possibly one old
\* row, dated exactly BACKTEST_YEARS before the last date ("edge") or one day
\* earlier ("out").
Shapes ==
    {[last |-> 0, rows |-> 0, old |-> "none"],
     [last |-> Epoch, rows |-> MinRows - 1, old |-> "none"],
     [last |-> Epoch + 1, rows |-> MinRows - 1, old |-> "out"],
     [last |-> Epoch, rows |-> MinRows - 1, old |-> "edge"],
     [last |-> Epoch, rows |-> MinRows, old |-> "none"],
     [last |-> Epoch + 1, rows |-> MinRows, old |-> "out"],
     [last |-> Epoch + 15, rows |-> MinRows + 1, old |-> "none"]}

CloseLen(c) == c.rows + (IF c.old = "none" THEN 0 ELSE 1)

\* close.index[j], j in 1..CloseLen(c); the index is strictly increasing
CloseDate(c, j) ==
    LET k == IF c.old = "none" THEN j ELSE j - 1
    IN  IF k = 0
        THEN YearsBefore(c.last, BACKTEST_YEARS) - (IF c.old = "out" THEN 1 ELSE 0)
        ELSE c.last - c.rows + k

SetMax(S) == CHOOSE x \in S : \A y \in S : y <= x
SetMin(S) == CHOOSE x \in S : \A y \in S : x <= y

\* close.index, a sequence of dates
CloseIndex(c) == [j \in 1..CloseLen(c) |-> CloseDate(c, j)]

\* close.loc[close.index >= start_date].index
Window(index, start_date) == SelectSeq(index, LAMBDA d : d >= start_date)

\* mutant: the last date of each month instead of the first
ContributionDays_LastOfMonth(index) ==
    LET dates == {index[k] : k \in DOMAIN index}
        months == {Month(d) : d \in dates}
    IN  {SetMax({d \in dates : Month(d) = m}) : m \in months}

\* px.index.to_series().groupby(px.index.to_period("M")).min().values
ContributionDays(index) ==
    LET dates == {index[k] : k \in DOMAIN index}
        months == {Month(d) : d \in dates}
    IN  {SetMin({d \in dates : Month(d) = m}) : m \in months}

-----------------------------------------------------------------------------
(* Rows of the price and signal tables *)

\* a quote is missing, or 1 or 2 pounds
PriceValues == {NaN, <<1, 1>>, <<2, 1>>}

QuietPrices == [t \in Tickers |-> One]
QuietSignals == {[t \in Tickers |-> t \in S] : S \in {{}, {"A"}, Tickers}}

\* the rows px.loc[day], sig.loc[day] can be at row k of n
RowChoices(k, n, quiet) ==
    IF k <= n - MaxVaried
    THEN {[prices |-> QuietPrices, sig |-> quiet]}
    ELSE [prices : [Tickers -> PriceValues], sig : [Tickers -> BOOLEAN]]

Contributions == {0, 2}

-----------------------------------------------------------------------------
(* run_backtest: one day of the loop *)

RECURSIVE FSum(_, _)
\* sum(f[t] for t in S), a float
FSum(f, S) ==
    IF S = {} THEN Zero
    ELSE LET t == CHOOSE x \in S : TRUE
         IN  FAdd(f[t], FSum(f, S \ {t}))

\* prices.dropna().index
Tradable(p) == {t \in Tickers : ~IsNaN(p[t])}

\* mutant: the exit loop runs over every column, quoted or not
ExitStep_EveryColumn(c, sh, p, sg) ==
    LET sold == {t \in Tickers : FGt(sh[t], Zero) /\ ~sg[t]}
    IN  [cash   |-> FAdd(c, FSum([t \in sold |-> FMul(sh[t], p[t])], sold)),
         shares |-> [t \in Tickers |-> IF t \in sold THEN Zero ELSE sh[t]]]

\* mutant: the test of the signal is inverted
ExitStep_Inverted(c, sh, p, sg) ==
    LET sold == {t \in Tradable(p) : FGt(sh[t], Zero) /\ sg[t]}
    IN  [cash   |-> FAdd(c, FSum([t \in sold |-> FMul(sh[t], p[t])], sold)),
         shares |-> [t \in Tickers |-> IF t \in sold THEN Zero ELSE sh[t]]]

\* The exit loop: every tradable ticker that is held and whose signal is off
\* is sold at today's price.
ExitStep(c, sh, p, sg) ==
    LET sold == {t \in Tradable(p) : FGt(sh[t], Zero) /\ ~sg[t]}
    IN  [cash   |-> FAdd(c, FSum([t \in sold |-> FMul(sh[t], p[t])], sold)),
         shares |-> [t \in Tickers |-> IF t \in sold THEN Zero ELSE sh[t]]]

\* mutant: the cash is split by the number of columns, not of active tickers
ContributionStep_SplitByColumns(c, sh, p, sg, amount) ==
    LET c1 == FAdd(c, R(amount))
        active == {t \in Tradable(p) : sg[t]}
    IN  IF active # {} /\ FGt(c1, Zero)
        THEN LET per_name == FDiv(c1, R(Cardinality(Tickers)))
             IN  [cash   |-> Zero,
                  shares |-> [t \in Tickers |->
                                 IF t \in active
                                 THEN FAdd(sh[t], FDiv(per_name, p[t]))
                                 ELSE sh[t]]]
        ELSE [cash |-> c1, shares |-> sh]

\* The contribution block, on a contribution day
ContributionStep(c, sh, p, sg, amount) ==
    LET c1 == FAdd(c, R(amount))
        active == {t \in Tradable(p) : sg[t]}
    IN  IF active # {} /\ FGt(c1, Zero)
        THEN LET per_name == FDiv(c1, R(Cardinality(active)))
             IN  [cash   |-> Zero,
                  shares |-> [t \in Tickers |->
                                 IF t \in active
                                 THEN FAdd(sh[t], FDiv(per_name, p[t]))
                                 ELSE sh[t]]]
        ELSE [cash |-> c1, shares |-> sh]

\* mutant: the holdings of every column are valued, quoted or not
Equity_EveryColumn(c, sh, p) ==
    FAdd(c, FSum([t \in Tickers |-> FMul(sh[t], p[t])], Tickers))

\* cash + sum(shares[t] * prices[t] for t in tradable)
Equity(c, sh, p) ==
    FAdd(c, FSum([t \in Tradable(p) |-> FMul(sh[t], p[t])], Tradable(p)))

\* mutant: the contribution block runs before the exit loop
DayResult_ContributionFirst(c, sh, p, sg, is_contribution_day, amount) ==
    LET b == IF is_contribution_day
             THEN ContributionStep(c, sh, p, sg, amount)
             ELSE [cash |-> c, shares |-> sh]
    IN  ExitStep(b.cash, b.shares, p, sg)

\* mutant: the buying is done every day, the contribution added monthly
DayResult_BuysDaily(c, sh, p, sg, is_contribution_day, amount) ==
    LET e == ExitStep(c, sh, p, sg)
    IN  ContributionStep(e.cash, e.shares, p, sg,
                         IF is_contribution_day THEN amount ELSE 0)

\* The portfolio after the loop body has run on one row
DayResult(c, sh, p, sg, is_contribution_day, amount) ==
    LET e == ExitStep(c, sh, p, sg)
    IN  IF is_contribution_day
        THEN ContributionStep(e.cash, e.shares, p, sg, amount)
        ELSE e

-----------------------------------------------------------------------------
(* max_drawdown *)

FMax(a, b) == IF FGt(b, a) THEN b ELSE a

\* min() of two floats, skipping NaN
MinSkipNaN(a, b) ==
    IF IsNaN(a) THEN b ELSE IF IsNaN(b) THEN a ELSE IF FGt(a, b) THEN b ELSE a

\* mutant: the drawdown is measured from the first equity, not the cummax
DrawdownStep_FromFirst(acc, n, v) ==
    LET m  == IF n = 0 THEN v ELSE acc.roll_max
        dd == FSub(FDiv(v, m), One)
    IN  [roll_max |-> m, low |-> MinSkipNaN(acc.low, dd)]

\* max_drawdown is a fold of the curve in index order: roll_max is the cummax
\* and dd.min() the least equity / roll_max - 1.0 that is not NaN.  The loop
\* appends the curve in index order, which is ascending, so sort_index()
\* changes nothing and the fold is carried along with the curve: acc is the
\* fold of the rows before this one (n of them), v this row's equity.
DrawdownStep(acc, n, v) ==
    LET m  == IF n = 0 THEN v ELSE FMax(acc.roll_max, v)
        dd == FSub(FDiv(v, m), One)
    IN  [roll_max |-> m, low |-> MinSkipNaN(acc.low, dd)]

\* float(dd.min()) if not dd.empty else 0.0
max_drawdown(acc, n) == IF n = 0 THEN Zero ELSE acc.low

-----------------------------------------------------------------------------
(* run_backtest *)

NoRow == [t \in Tickers |-> NaN]
NoSig == [t \in Tickers |-> FALSE]
NoShares == [t \in Tickers |-> Zero]

InitBacktest ==
    /\ pc = "call"
    /\ close \in Shapes
    /\ signals \in QuietSignals
    /\ monthly_contribution \in Contributions
    /\ px = <<>>
    /\ contribution_days = {}
    /\ cash = Zero
    /\ shares = NoShares
    /\ equity_points = <<>>
    /\ day = 0
    /\ prices = NoRow
    /\ sigrow = NoSig
    /\ cash0 = Zero
    /\ shares0 = NoShares
    /\ drawdown = [roll_max |-> NaN, low |-> NaN]
    /\ result = [kind |-> "none"]

\* close.empty
RaiseEmpty ==
    /\ pc = "call"
    /\ CloseLen(close) = 0
    /\ pc' = "error"
    /\ result' = [kind |-> "ValueError", msg |-> "Close prices are empty."]
    /\ UNCHANGED <<close, signals, monthly_contribution, px, contribution_days,
                   cash, shares, equity_points, day, prices, sigrow, cash0,
                   shares0, drawdown>>

end_date(c) == SetMax({CloseDate(c, j) : j \in 1..CloseLen(c)})

Windowed(c) == Window(CloseIndex(c), YearsBefore(end_date(c), BACKTEST_YEARS))

\* mutant: a window of exactly 252 rows is refused too
TooShort_Inclusive(index) == Len(index) <= MinRows

\* len(px) < 252
TooShort(index) == Len(index) < MinRows

RaiseShort ==
    /\ pc = "call"
    /\ CloseLen(close) > 0
    /\ TooShort(Windowed(close))
    /\ pc' = "error"
    /\ px' = Windowed(close)
    /\ result' = [kind |-> "ValueError",
                  msg |-> "Not enough data for a meaningful backtest window."]
    /\ UNCHANGED <<close, signals, monthly_contribution, contribution_days,
                   cash, shares, equity_points, day, prices, sigrow, cash0,
                   shares0, drawdown>>

\* The window is long enough: the contribution days and the empty portfolio
Start ==
    /\ pc = "call"
    /\ CloseLen(close) > 0
    /\ ~TooShort(Windowed(close))
    /\ pc' = "loop"
    /\ px' = Windowed(close)
    /\ contribution_days' = ContributionDays(Windowed(close))
    /\ cash' = Zero
    /\ shares' = NoShares
    /\ equity_points' = <<>>
    /\ UNCHANGED <<close, signals, monthly_contribution, day, prices, sigrow,
                   cash0, shares0, drawdown, result>>

\* One iteration of `for day in px.index`
Day ==
    /\ pc = "loop"
    /\ day < Len(px)
    /\ \E row \in RowChoices(day + 1, Len(px), signals) :
          LET d == px[day + 1]
              r == DayResult(cash, shares, row.prices, row.sig,
                             d \in contribution_days, monthly_contribution)
              equity == Equity(r.cash, r.shares, row.prices)
          IN  /\ day' = day + 1
              /\ prices' = row.prices
              /\ sigrow' = row.sig
              /\ cash0' = cash
              /\ shares0' = shares
              /\ cash' = r.cash
              /\ shares' = r.shares
              /\ equity_points' = Append(equity_points, <<d, equity>>)
              /\ drawdown' = DrawdownStep(drawdown, day, equity)
    /\ UNCHANGED <<pc, close, signals, monthly_contribution, px,
                   contribution_days, result>>

\* pd.Series({d: v for d, v in equity_points}).sort_index(): one point per
\* date (a later point replaces an earlier one of the same date), ascending
SortIndex(points) ==
    IF \A k \in 1..(Len(points) - 1) : points[k][1] < points[k + 1][1]
    THEN points
    ELSE LET dates == {points[k][1] : k \in DOMAIN points}
             value(d) == points[SetMax({k \in DOMAIN points : points[k][1] = d})][2]
             rank(d) == Cardinality({x \in dates : x <= d})
         IN  [i \in 1..Cardinality(dates) |->
                 LET d == CHOOSE x \in dates : rank(x) = i IN <<d, value(d)>>]

\* After the loop: the BacktestResult (cagr, a real power, is left out)
Summary(points, acc, days, amount) ==
    LET equity_curve == SortIndex(points)
    IN  [kind |-> "BacktestResult",
         invested |-> FMul(R(amount), R(Cardinality(days))),
         final_value |-> equity_curve[Len(equity_curve)][2],
         max_drawdown |-> max_drawdown(acc, Len(equity_curve)),
         monthly_contribution_count |-> Cardinality(days)]

Finish ==
    /\ pc = "loop"
    /\ day = Len(px)
    /\ pc' = "done"
    /\ result' = Summary(equity_points, drawdown, contribution_days,
                        monthly_contribution)
    /\ UNCHANGED <<close, signals, monthly_contribution, px, contribution_days,
                   cash, shares, equity_points, day, prices, sigrow, cash0,
                   shares0, drawdown>>

Next ==
    \/ RaiseEmpty /\ UNCHANGED sgVars
    \/ RaiseShort /\ UNCHANGED sgVars
    \/ Start /\ UNCHANGED sgVars
    \/ Day /\ UNCHANGED sgVars
    \/ Finish /\ UNCHANGED sgVars

Init ==
    /\ InitBacktest
    /\ series = <<>>
    /\ sigcol = <<>>

Spec == Init /\ [][Next]_vars

\* build_signals alone: the backtest is not called
InitSig ==
    /\ InitSignals
    /\ pc = "idle"
    /\ close = [last |-> 0, rows |-> 0, old |-> "none"]
    /\ signals = NoSig
    /\ monthly_contribution = 0
    /\ px = <<>>
    /\ contribution_days = {}
    /\ cash = Zero
    /\ shares = NoShares
    /\ equity_points = <<>>
    /\ day = 0
    /\ prices = NoRow
    /\ sigrow = NoSig
    /\ cash0 = Zero
    /\ shares0 = NoShares
    /\ drawdown = [roll_max |-> NaN, low |-> NaN]
    /\ result = [kind |-> "none"]

NextSig == BuildSignals /\ UNCHANGED btVars

SpecSig == InitSig /\ [][NextSig]_vars

-----------------------------------------------------------------------------
(* What the claims speak of, in terms of the state after a row *)

\* the loop has processed a row: prices, sigrow, cash0 and shares0 are that
\* row's, cash and shares the portfolio at the end of it
Processed == pc \in {"loop", "done"} /\ day >= 1

Quoted(t) == ~IsNaN(prices[t])
Held0(t) == FGt(shares0[t], Zero)

\* today is the first date of its month in the index, whose dates ascend
FirstOfMonth == day = 1 \/ Month(px[day - 1]) # Month(px[day])

\* the contribution of today
Added == IF FirstOfMonth THEN R(monthly_contribution) ELSE Zero

\* today's exits: held, quoted, signal off
Exits(t) == Held0(t) /\ Quoted(t) /\ ~sigrow[t]
Proceeds(t) == IF Exits(t) THEN FMul(shares0[t], prices[t]) ELSE Zero
AllProceeds == FAdd(Proceeds("A"), Proceeds("B"))

\* today's active tickers
IsActive(t) == Quoted(t) /\ sigrow[t]
NActive == Cardinality({t \in Tickers : IsActive(t)})

\* cash after the exits and the contribution, before any buying
PreBuyCash == FAdd(FAdd(cash0, AllProceeds), Added)

\* value of the holding of t at today's price, nothing if t has no quote
Worth(t) == IF Quoted(t) THEN FMul(shares[t], prices[t]) ELSE Zero

\* pounds spent on t today (negative: received for t)
Spent(t) ==
    IF Quoted(t) THEN FMul(FSub(shares[t], shares0[t]), prices[t]) ELSE Zero

\* C1: after every row one more equity point has been recorded, dated that
\* row and later than the point before it, and its value is the cash at the
\* end of the row plus shares times price over the quoted tickers; at the end
\* there is exactly one point per date of the index, in ascending date order,
\* and the final value is the last of them.
C1_EquityReconciles ==
    Processed =>
        /\ Len(equity_points) = day
        /\ equity_points[day][1] = px[day]
        /\ day > 1 => equity_points[day - 1][1] < equity_points[day][1]
        /\ equity_points[day][2] = FAdd(cash, FAdd(Worth("A"), Worth("B")))
        /\ pc = "done" =>
              /\ day = Len(px)
              /\ \A k \in 1..day : equity_points[k][1] = px[k]
              /\ \A k \in 1..(day - 1) : px[k] < px[k + 1]
              /\ result.final_value = equity_points[day][2]

C1_Witness ==
    /\ pc = "done"
    /\ \E t \in Tickers, u \in Tickers :
          /\ ~Quoted(t) /\ FGt(shares[t], Zero)
          /\ Quoted(u) /\ FGt(shares[u], Zero) /\ prices[u] = <<2, 1>>
    /\ FGt(cash, Zero)

\* C2: on a contribution day a held, quoted ticker whose signal is off ends
\* the day with no shares and gets none of the allocation, and its proceeds
\* are in the cash that is allocated: when a ticker is active the cash ends at
\* 0 and the active tickers receive the idle cash, the proceeds and the
\* contribution; when none is, all of it stays in cash.
C2_ExitBeforeContribution ==
    Processed /\ FirstOfMonth =>
        \A t \in Tickers :
            Exits(t) =>
                /\ shares[t] = Zero
                /\ FGt(PreBuyCash, Zero)
                /\ IF NActive > 0
                   THEN /\ cash = Zero
                        /\ \A u \in Tickers :
                              IsActive(u) =>
                                 Spent(u) = FDiv(PreBuyCash, R(NActive))
                   ELSE cash = PreBuyCash

C2_Witness ==
    /\ Processed
    /\ FirstOfMonth
    /\ Exits("A")
    /\ IsActive("B")
    /\ FGt(cash0, Zero)
    /\ shares["A"] = Zero
    /\ FGt(shares["B"], shares0["B"])

NMonths == Cardinality({Month(px[k]) : k \in DOMAIN px})

\* C4: on every date the cash put in from outside is the contribution on the
\* first date of a month of the index and nothing on any other date, and the
\* result of a completed run reports the contribution times the number of
\* months present in the index (NMonths) as invested, and that number as
\* monthly_contribution_count.
C4_InvestedIsContributionTimesMonths ==
    /\ Processed => FAdd(cash, FAdd(Spent("A"), Spent("B"))) = FAdd(cash0, Added)
    /\ pc = "done" =>
          /\ result.invested = R(monthly_contribution * NMonths)
          /\ result.monthly_contribution_count = NMonths
          /\ Cardinality({k \in DOMAIN px : px[k] \in contribution_days}) = NMonths

C4_Witness ==
    /\ pc = "done"
    /\ monthly_contribution > 0
    /\ signals = [t \in Tickers |-> FALSE]
    /\ shares = [t \in Tickers |-> Zero]
    /\ cash = result.invested
    /\ result.monthly_contribution_count = 10

\* C5: on a date that is not a contribution day no share count increases,
\* whatever the signals and the cash, and the cash changes by the proceeds of
\* the exits alone; a share count increases only on a contribution day, for
\* an active ticker.
C5_IdleCashWaits ==
    Processed =>
        /\ ~FirstOfMonth =>
              /\ \A t \in Tickers : ~FGt(shares[t], shares0[t])
              /\ cash = FAdd(cash0, AllProceeds)
        /\ \A t \in Tickers :
              FGt(shares[t], shares0[t]) => FirstOfMonth /\ IsActive(t)

C5_Witness ==
    /\ Processed
    /\ ~FirstOfMonth
    /\ FGt(cash0, Zero)
    /\ IsActive("A")
    /\ Exits("B")
    /\ FGt(cash, cash0)

\* the greatest equity recorded so far, and the last row's drawdown from it
EquityPeak ==
    LET seen == {equity_points[k][2] : k \in 1..day}
    IN  CHOOSE m \in seen : \A v \in seen : ~FGt(v, m)

DrawdownToday == FSub(FDiv(equity_points[day][2], EquityPeak), One)

\* C6: with a positive contribution the max drawdown of the curve of a
\* completed run is a number from -1 to 0; after every row the least drawdown
\* so far is such a number, and it is at most the drawdown of that row, which
\* is the row's equity divided by the greatest equity up to it, minus 1.
C6_DrawdownWithinBounds ==
    monthly_contribution > 0 =>
        /\ Processed =>
              /\ FLe(drawdown.low, Zero)
              /\ FLe(<<-1, 1>>, drawdown.low)
              /\ FLe(drawdown.low, DrawdownToday)
        /\ pc = "done" =>
              /\ FLe(result.max_drawdown, DrawdownToday)
              /\ FLe(result.max_drawdown, Zero)
              /\ FLe(<<-1, 1>>, result.max_drawdown)
              /\ result.max_drawdown[2] # 0

C6_Witness ==
    /\ pc = "done"
    /\ monthly_contribution > 0
    /\ \E t \in Tickers : ~Quoted(t) /\ FGt(shares[t], Zero)
    /\ equity_points[day][2] = Zero
    /\ result.max_drawdown = <<-1, 1>>

RowsInWindow == close.rows + (IF close.old = "edge" THEN 1 ELSE 0)

\* C7: the run ends in the insufficient-data error exactly when fewer than
\* 252 rows are left after windowing (RowsInWindow), the empty table
\* included, and then no portfolio state and no equity point exist; with 252
\* rows or more the loop is entered, raises nothing and ends in a
\* BacktestResult after the last row.
C7_RowGuard ==
    /\ pc = "error" =>
          /\ RowsInWindow < 252
          /\ result.kind = "ValueError"
          /\ (result.msg = "Close prices are empty.") = (close.rows = 0)
          /\ equity_points = <<>>
          /\ day = 0
          /\ cash = Zero
          /\ shares = [t \in Tickers |-> Zero]
    /\ pc \in {"loop", "done"} => RowsInWindow >= 252 /\ Len(px) = RowsInWindow
    /\ pc = "loop" => day <= Len(px) /\ result.kind = "none"
    /\ pc = "done" => day = Len(px) /\ result.kind = "BacktestResult"

C7_Witness ==
    /\ pc = "done"
    /\ close.rows = 251
    /\ Len(px) = 252
    /\ result.kind = "BacktestResult"

\* C9: a ticker without a quote on a date keeps its share count, whatever its
\* signal, and neither the cash nor the equity of the date has a term for it:
\* the cash and the money spent on the other ticker account for the cash of
\* the day before and the contribution, and the equity is the cash plus the
\* worth of the other ticker.
C9_UnquotedTickerSkipped ==
    Processed =>
        \A t \in Tickers :
            ~Quoted(t) =>
                /\ shares[t] = shares0[t]
                /\ \E u \in Tickers \ {t} :
                      /\ FAdd(cash, Spent(u)) = FAdd(cash0, Added)
                      /\ equity_points[day][2] = FAdd(cash, Worth(u))

C9_Witness ==
    /\ Processed
    /\ FirstOfMonth
    /\ ~Quoted("A") /\ Held0("A") /\ ~sigrow["A"]
    /\ ~Quoted("B") /\ sigrow["B"]
    /\ shares = shares0
    /\ FGt(cash, cash0)

\* C10: at the end of every date every ticker that is held and quoted has a
\* true signal, a share count grows only for a ticker whose signal is true,
\* and when no quoted ticker has a true signal the equity of the date is the
\* cash.
C10_HeldImpliesSignal ==
    Processed =>
        /\ \A t \in Tickers : FGt(shares[t], Zero) /\ Quoted(t) => sigrow[t]
        /\ \A t \in Tickers : FGt(shares[t], shares0[t]) => sigrow[t]
        /\ NActive = 0 => equity_points[day][2] = cash

C10_Witness ==
    /\ Processed
    /\ NActive = 0
    /\ Exits("A")
    /\ ~Quoted("B") /\ FGt(shares["B"], Zero)
    /\ equity_points[day][2] = cash
    /\ FGt(cash, Zero)

\* the sum of the whole prices of rows lo..hi of the column
RECURSIVE Total(_, _)
Total(lo, hi) ==
    IF lo = hi THEN series[lo][1]
    ELSE LET mid == (lo + hi) \div 2 IN Total(lo, mid) + Total(mid + 1, hi)

\* C8: a row with fewer than 200 rows of history up to it has a false signal,
\* and the signal of a row is true only if the 200 rows up to it and the 200
\* rows up to the row 20 earlier are all there and quoted, the close exceeds
\* the mean of the former, and that mean exceeds the mean of the latter (the
\* prices of the columns are whole, so the sums are sums of numerators).
C8_SignalNeedsDefinedAverage ==
    sigcol # <<>> =>
        /\ Len(sigcol) = Len(series)
        /\ \A t \in 1..Len(series) :
              /\ t < 200 => ~sigcol[t]
              /\ sigcol[t] =>
                    /\ t - 20 >= 200
                    /\ \A k \in (t - 219)..t : series[k][2] = 1
                    /\ 200 * series[t][1] > Total(t - 199, t)
                    /\ Total(t - 199, t) > Total(t - 219, t - 20)

C8_Witness ==
    /\ sigcol # <<>>
    /\ Len(series) > 220
    /\ sigcol[220]
    /\ ~sigcol[219]
    /\ series[201] = <<2, 1>>
    /\ series[200] = <<1, 1>>

====
